---- MODULE Spec2Model ----
(***************************************************************************)
(* The scope tree of power_toys.rs: ScopedTimer nodes, ScopeJoinHandle     *)
(* handles, the fork/join protocol, the post-order aggregation `finish`    *)
(* and the sort of join_and_finish_pretty.                                 *)
(*                                                                         *)
(* The recursive Vec<ScopedTimer<I>> tree is kept as an arena: `timers` is *)
(* a sequence of node records, node 1 is the root, and a node's `children` *)
(* is the sequence of arena indices of its child nodes in Vec order.       *)
(* Instants and Durations are natural numbers of clock ticks.              *)
(***************************************************************************)
EXTENDS Integers, Sequences, FiniteSets, Bags, TLC

\* Identifiers the caller forks with: 1..MaxIdent (the root's identifier is one
\* of them, so that a child can be forked under the root's own identifier).
MaxIdent == 2
\* Number of fork calls a run may make.
MaxForks == 3
\* Last instant the monotonic clock reaches.
MaxTime == 2
\* Largest report (number of nodes) join_and_finish_pretty is explored on.
MaxRows == 2
\* Nanoseconds in one clock tick.
TickNanos == 123456

Idents == 1..MaxIdent
RootIdent == 1
Root == 1
MaxNodes == MaxForks + 1
\* The receiver of a fork: 0 is the root ScopedTimer itself, k > 0 the handle k.
RootRecv == 0

VARIABLES
    timers,     \* arena of ScopedTimer records
    handles,    \* the live ScopeJoinHandle values; `at` and `seq` are history:
                \* the instant of the fork and its rank among all fork calls
    clock,      \* the reading of Instant::now()
    pc,         \* "running" until the root is consumed, then "finished"
    vec,        \* the Vec returned by join_and_finish
    order,      \* the arrangement sort_unstable_by left `timings` in: indices into vec
    forkCalls,  \* history: bag of <<parent node, identifier>>, one per fork call
    intervals,  \* history: per node, the sum of (join instant - fork instant)
    buf,        \* the String returned by join_and_finish_pretty: a sequence of chars
    lazy        \* the closure and LazyTimer of lib.rs, and what became of them

vars == <<timers, handles, clock, pc, vec, order, forkCalls, intervals, buf, lazy>>

----------------------------------------------------------------------------
\* ScopedTimer::new. `joins` is a history field: the number of times
\* ScopedTimer::join has run on the node.
ScopedTimer_new(ident, now) ==
    [ident |-> ident, start |-> now, accumulated |-> 0, times_forked |-> 0,
     children |-> <<>>, joins |-> 0]

\* Instant::elapsed: the duration since `start`, saturating at zero.
Elapsed(start, now) == IF now >= start THEN now - start ELSE 0

\* A join that overwrites the accumulator instead of adding to it.
ScopedTimer_join_assign(t, now) ==
    [t EXCEPT !.accumulated = Elapsed(t.start, now), !.joins = @ + 1]

\* ScopedTimer::join: self.accumulated += self.start.elapsed().
ScopedTimer_join(t, now) ==
    [t EXCEPT !.accumulated = @ + Elapsed(t.start, now), !.joins = @ + 1]

\* Drop for ScopeJoinHandle: self.inner.join().
Drop_drop(t, now) == ScopedTimer_join(t, now)

\* A join body that runs the join logic itself before the handle is dropped.
ScopeJoinHandle_join_twice(t, now) == Drop_drop(ScopedTimer_join(t, now), now)

\* ScopeJoinHandle::join(self): the body is empty, `self` is dropped on return.
ScopeJoinHandle_join(t, now) == Drop_drop(t, now)

\* v.iter().position(|child| child.ident == ident): the first index, 0 for None.
Position(ts, v, ident) ==
    LET hits == {i \in 1..Len(v) : ts[v[i]].ident = ident}
    IN  IF hits = {} THEN 0 ELSE CHOOSE i \in hits : \A j \in hits : i <= j

\* A search_and_push that always pushes a new child.
search_and_push_always(ts, p, ident, now) ==
    LET timer == [ScopedTimer_new(ident, now) EXCEPT !.times_forked = 1]
        e == Len(ts) + 1
    IN  [timers |-> [Append(ts, [timer EXCEPT !.start = now])
                        EXCEPT ![p].children = Append(@, e)],
         inner |-> e]

\* A search_and_push that forgets to count the re-entry of an existing child.
search_and_push_nocount(ts, p, ident, now) ==
    LET v == ts[p].children
        find == Position(ts, v, ident)
    IN  IF find # 0
        THEN [timers |-> [ts EXCEPT ![v[find]].start = now], inner |-> v[find]]
        ELSE search_and_push_always(ts, p, ident, now)

\* A search_and_push that keeps the activation timestamp of the first fork.
search_and_push_stale(ts, p, ident, now) ==
    LET v == ts[p].children
        find == Position(ts, v, ident)
    IN  IF find # 0
        THEN [timers |-> [ts EXCEPT ![v[find]].times_forked = @ + 1],
              inner |-> v[find]]
        ELSE search_and_push_always(ts, p, ident, now)

\* A search_and_push that clears the accumulator of a re-entered child.
search_and_push_reset(ts, p, ident, now) ==
    LET v == ts[p].children
        find == Position(ts, v, ident)
    IN  IF find # 0
        THEN [timers |-> [ts EXCEPT ![v[find]].times_forked = @ + 1,
                                    ![v[find]].start = now,
                                    ![v[find]].accumulated = 0],
              inner |-> v[find]]
        ELSE search_and_push_always(ts, p, ident, now)

\* A search_and_push that looks the identifier up in the whole tree, not only
\* among the children of p.
search_and_push_anywhere(ts, p, ident, now) ==
    LET hits == {n \in 1..Len(ts) : ts[n].ident = ident}
    IN  IF hits # {}
        THEN LET entry == CHOOSE n \in hits : \A m \in hits : n <= m
             IN  [timers |-> [ts EXCEPT ![entry].times_forked = @ + 1,
                                        ![entry].start = now],
                  inner |-> entry]
        ELSE search_and_push_always(ts, p, ident, now)

\* A search_and_push that inserts a new child at the front of the Vec.
search_and_push_front(ts, p, ident, now) ==
    LET v == ts[p].children
        find == Position(ts, v, ident)
        timer == [ScopedTimer_new(ident, now) EXCEPT !.times_forked = 1]
        e == Len(ts) + 1
    IN  IF find # 0
        THEN [timers |-> [ts EXCEPT ![v[find]].times_forked = @ + 1,
                                    ![v[find]].start = now],
              inner |-> v[find]]
        ELSE [timers |-> [Append(ts, [timer EXCEPT !.start = now])
                             EXCEPT ![p].children = <<e>> \o @],
              inner |-> e]

\* search_and_push(v, ident) on the children Vec of node p: the arena after the
\* call and the node the returned handle is bound to.
search_and_push(ts, p, ident, now) ==
    LET v == ts[p].children
        find == Position(ts, v, ident)
    IN  IF find # 0
        THEN LET entry == v[find]
             IN  [timers |-> [ts EXCEPT ![entry].times_forked = @ + 1,
                                        ![entry].start = now],
                  inner |-> entry]
        ELSE LET timer == [ScopedTimer_new(ident, now) EXCEPT !.times_forked = 1]
                 e == Len(ts) + 1
             IN  [timers |-> [Append(ts, [timer EXCEPT !.start = now])
                                 EXCEPT ![p].children = Append(@, e)],
                  inner |-> e]

\* A root fork that restarts the root's own activation like a re-entered child.
ScopedTimer_fork_restart(ts, ident, now) ==
    search_and_push([ts EXCEPT ![Root].times_forked = @ + 1, ![Root].start = now],
                    Root, ident, now)

\* A root fork that does not count itself.
ScopedTimer_fork_nocount(ts, ident, now) == search_and_push(ts, Root, ident, now)

\* <ScopedTimer as Forkable>::fork: counts the fork on the root, then delegates.
ScopedTimer_fork(ts, ident, now) ==
    search_and_push([ts EXCEPT ![Root].times_forked = @ + 1], Root, ident, now)

\* <ScopeJoinHandle as Forkable>::fork: delegates on the wrapped node's children.
ScopeJoinHandle_fork(ts, inner, ident, now) ==
    search_and_push(ts, inner, ident, now)

----------------------------------------------------------------------------
\* Exclusive borrows.  fork takes `&'prt mut self` and returns a handle that
\* lives for 'prt: while that handle is alive the receiver it was forked from
\* is mutably borrowed and cannot be forked, joined, dropped or consumed.

\* A handle type that does not hold the borrow of its parent.
CanUse_unchecked(r) == TRUE

CanUse(r) == ~ \E h \in handles : h.from = r

HandleIds == 1..MaxForks
FreshId == CHOOSE k \in HandleIds :
               /\ \A h \in handles : h.id # k
               /\ \A j \in HandleIds : (\A h \in handles : h.id # j) => k <= j

Forks == BagCardinality(forkCalls)
Active(n) == \E h \in handles : h.inner = n

----------------------------------------------------------------------------
\* ScopedTimer::finish: the entries pushed for the subtree of node n,
\* children first, each <<ident, horde, times_forked>>.
RECURSIVE finish(_, _), finish_children(_, _, _), chillated(_, _, _)

\* the sum `chillated` of child.accumulated over children k..Len
chillated(ts, v, k) ==
    IF k > Len(v) THEN 0 ELSE ts[v[k]].accumulated + chillated(ts, v, k + 1)

finish_children(ts, v, k) ==
    IF k > Len(v) THEN <<>> ELSE finish(ts, v[k]) \o finish_children(ts, v, k + 1)

\* A finish that pushes a node's entry before those of its children.
finish_preorder(ts, n) ==
    LET c == chillated(ts, ts[n].children, 1)
        horde == IF c <= ts[n].accumulated THEN ts[n].accumulated - c ELSE 0
    IN  <<<<ts[n].ident, horde, ts[n].times_forked>>>>
            \o finish_children(ts, ts[n].children, 1)

\* A finish that subtracts without the underflow guard and without the sum.
finish_nosub(ts, n) ==
    finish_children(ts, ts[n].children, 1)
        \o <<<<ts[n].ident, ts[n].accumulated, ts[n].times_forked>>>>

finish(ts, n) ==
    LET c == chillated(ts, ts[n].children, 1)
        horde == IF c <= ts[n].accumulated THEN ts[n].accumulated - c ELSE 0
    IN  finish_children(ts, ts[n].children, 1)
            \o <<<<ts[n].ident, horde, ts[n].times_forked>>>>

\* ScopedTimer::join_and_finish: join the root, then finish into a fresh Vec.
join_and_finish(ts, now) ==
    LET joined == [ts EXCEPT ![Root] = ScopedTimer_join(@, now)]
    IN  [timers |-> joined, vec |-> finish(joined, Root)]

\* The comparator of the sort written the other way round (ascending).
compare_ascending(a, b) ==
    IF a[2] < b[2] THEN "Less" ELSE IF a[2] > b[2] THEN "Greater" ELSE "Equal"

\* |a, b| b.1.cmp(&a.1)
compare(a, b) ==
    IF b[2] < a[2] THEN "Less" ELSE IF b[2] > a[2] THEN "Greater" ELSE "Equal"

\* timings.sort_unstable_by(compare): every arrangement of the entries that is
\* ordered by the comparator; the order of elements that compare Equal is
\* unspecified.  Arrangements are sequences of indices into v.
RECURSIVE sort_unstable_by(_, _)
sort_unstable_by(v, left) ==
    IF left = {} THEN {<<>>}
    ELSE UNION {{<<i>> \o s : s \in sort_unstable_by(v, left \ {i})} :
                i \in {i \in left : \A j \in left : compare(v[i], v[j]) # "Greater"}}

----------------------------------------------------------------------------
\* Text.  A String is a sequence of chars, each char a one-element token; MICRO
\* is U+00B5, the only char of the table that takes two bytes in UTF-8.
MICRO == "U+00B5"
NL == "\n"
IDENT == <<"I", "d", "e", "n", "t", "i", "f", "i", "e", "r">>
DURAT == <<"D", "u", "r", "a", "t", "i", "o", "n">>
TIMESF == <<"T", "i", "m", "e", "s", " ", "F", "o", "r", "k", "e", "d">>

DigitChar(d) ==
    CASE d = 0 -> "0" [] d = 1 -> "1" [] d = 2 -> "2" [] d = 3 -> "3" [] d = 4 -> "4"
      [] d = 5 -> "5" [] d = 6 -> "6" [] d = 7 -> "7" [] d = 8 -> "8" [] d = 9 -> "9"

\* to_string of an unsigned integer (the identifiers of the tests are usize,
\* times_forked is u32): its decimal digits
RECURSIVE to_string(_)
to_string(n) ==
    IF n < 10 THEN <<DigitChar(n)>> ELSE to_string(n \div 10) \o <<DigitChar(n % 10)>>

\* the fractional digits fmt_decimal writes: one digit per power of ten of the
\* divisor, up to the last non-zero one
RECURSIVE FracDigits(_, _)
FracDigits(frac, divisor) ==
    IF frac = 0 \/ divisor = 0 THEN <<>>
    ELSE <<DigitChar(frac \div divisor)>> \o FracDigits(frac % divisor, divisor \div 10)

fmt_decimal(int, frac, divisor, suffix) ==
    to_string(int)
        \o (IF frac = 0 THEN <<>> ELSE <<".">> \o FracDigits(frac, divisor))
        \o suffix

\* write!(f, "{:?}", duration): Duration's Debug form, for a duration of d ticks
DurationDebug(d) ==
    LET total == d * TickNanos
        secs == total \div 1000000000
        nanos == total % 1000000000
    IN  IF secs > 0 THEN fmt_decimal(secs, nanos, 100000000, <<"s">>)
        ELSE IF nanos >= 1000000
             THEN fmt_decimal(nanos \div 1000000, nanos % 1000000, 100000, <<"m", "s">>)
        ELSE IF nanos >= 1000
             THEN fmt_decimal(nanos \div 1000, nanos % 1000, 100, <<MICRO, "s">>)
        ELSE fmt_decimal(nanos, 0, 1, <<"n", "s">>)

\* str::len: the length in UTF-8 bytes
RECURSIVE str_len(_)
str_len(t) ==
    IF t = <<>> THEN 0 ELSE (IF Head(t) = MICRO THEN 2 ELSE 1) + str_len(Tail(t))

\* "-".repeat(n)
repeat(ch, n) == [i \in 1..n |-> ch]

\* {:<width$}: left-aligned, filled with spaces up to `width` chars
pad(t, width) == IF Len(t) >= width THEN t ELSE t \o repeat(" ", width - Len(t))

\* the `strings` Vec: each sorted entry as (ident, duration, times_forked) texts
strings_of(timings) ==
    [i \in 1..Len(timings) |->
        <<to_string(timings[i][1]), DurationDebug(timings[i][2]),
          to_string(timings[i][3])>>]

RECURSIVE fold_longest(_, _, _)
fold_longest(strings, col, k) ==
    IF k > Len(strings) THEN 0
    ELSE LET rest == fold_longest(strings, col, k + 1)
             here == str_len(strings[k][col])
         IN  IF here >= rest THEN here ELSE rest

\* Column widths that ignore the header labels.
longest_rows_only(strings, col, header) == fold_longest(strings, col, 1)

\* longest_ident / longest_dur / longest_fork: the fold over the rows, then
\* .max(HEADER.len())
longest(strings, col, header) ==
    LET rows == fold_longest(strings, col, 1)
    IN  IF rows >= str_len(header) THEN rows ELSE str_len(header)

hline_of(wi, wd, wf) ==
    <<"+">> \o repeat("-", wi + 2) \o <<"+">> \o repeat("-", wd + 2)
        \o <<"+">> \o repeat("-", wf + 2) \o <<"+">>

\* "| {:<width_id$} | {:<width_dur$} | {:<width_fork$} |"
row_of(a, b, c, wi, wd, wf) ==
    <<"|", " ">> \o pad(a, wi) \o <<" ", "|", " ">> \o pad(b, wd)
        \o <<" ", "|", " ">> \o pad(c, wf) \o <<" ", "|">>

RECURSIVE rows_of(_, _, _, _, _)
rows_of(strings, k, wi, wd, wf) ==
    IF k > Len(strings) THEN <<>>
    ELSE row_of(strings[k][1], strings[k][2], strings[k][3], wi, wd, wf) \o <<NL>>
             \o rows_of(strings, k + 1, wi, wd, wf)

\* join_and_finish_pretty after the sort: the table text for the sorted timings
render(timings) ==
    LET strings == strings_of(timings)
        wi == longest(strings, 1, IDENT)
        wd == longest(strings, 2, DURAT)
        wf == longest(strings, 3, TIMESF)
        hline == hline_of(wi, wd, wf)
    IN  hline \o <<NL>>
            \o row_of(IDENT, DURAT, TIMESF, wi, wd, wf) \o <<NL>>
            \o hline \o <<NL>>
            \o rows_of(strings, 1, wi, wd, wf)
            \o hline

----------------------------------------------------------------------------
\* lib.rs.  A closure is what its call returns and how many ticks its body runs;
\* every operation yields its Rust value together with `calls`, the number of
\* times it invoked the closure.
Closures == [res : Idents, cost : 0..MaxTime]

\* no closure timed: the state of `lazy` in the runs of the scope tree
NoLazy == [pc |-> "none"]

\* LazyTimer::new: Self { f }
LazyTimer_new(f) == [timer |-> [f |-> f], calls |-> 0]

\* <F as IntoLazyTimer>::into_lazy_timer: LazyTimer::new(self)
into_lazy_timer(f) == LazyTimer_new(f)

\* An into_exec that runs the closure a second time to measure it.
LazyTimer_into_exec_twice(t, now) ==
    [res |-> t.f.res, dur |-> Elapsed(now, now + 2 * t.f.cost), calls |-> 2,
     now |-> now + 2 * t.f.cost]

\* LazyTimer::into_exec: start = Instant::now(); res = f(); (res, start.elapsed())
LazyTimer_into_exec(t, now) ==
    LET f == t.f
        start == now
        returned == now + f.cost
    IN  [res |-> f.res, dur |-> Elapsed(start, returned), calls |-> 1, now |-> returned]

\* LazyTimer::as_inner / as_inner_mut: &self.f / &mut self.f
LazyTimer_as_inner(t) == [f |-> t.f, calls |-> 0]

\* LazyTimer::into_inner: self.f
LazyTimer_into_inner(t) == [f |-> t.f, calls |-> 0]

\* time_fn: LazyTimer::new(f).into_exec()
time_fn(f, now) ==
    LET made == LazyTimer_new(f)
        ran == LazyTimer_into_exec(made.timer, now)
    IN  [ran EXCEPT !.calls = made.calls + ran.calls]

----------------------------------------------------------------------------
Init ==
    /\ timers = <<ScopedTimer_new(RootIdent, 0)>>
    /\ handles = {}
    /\ clock = 0
    /\ pc = "running"
    /\ vec = <<>>
    /\ order = <<>>
    /\ forkCalls = EmptyBag
    /\ intervals = [n \in 1..MaxNodes |-> 0]
    /\ buf = <<>>
    /\ lazy = NoLazy

\* time passes in the caller's code between two operations
Tick ==
    /\ pc = "running"
    /\ clock < MaxTime
    /\ clock' = clock + 1
    /\ UNCHANGED <<timers, handles, pc, vec, order, forkCalls, intervals, buf, lazy>>

\* timer.fork(ident) on the root ScopedTimer
ForkRoot(ident) ==
    /\ pc = "running"
    /\ Forks < MaxForks
    /\ CanUse(RootRecv)
    /\ LET r == ScopedTimer_fork(timers, ident, clock)
       IN  /\ timers' = r.timers
           /\ handles' = handles \cup
                  {[id |-> FreshId, inner |-> r.inner, from |-> RootRecv, at |-> clock,
                    seq |-> Forks + 1]}
    /\ forkCalls' = forkCalls (+) SetToBag({<<Root, ident>>})
    /\ UNCHANGED <<clock, pc, vec, order, intervals, buf, lazy>>

\* handle.fork(ident) on a live ScopeJoinHandle
ForkHandle(h, ident) ==
    /\ pc = "running"
    /\ Forks < MaxForks
    /\ CanUse(h.id)
    /\ LET r == ScopeJoinHandle_fork(timers, h.inner, ident, clock)
       IN  /\ timers' = r.timers
           /\ handles' = handles \cup
                  {[id |-> FreshId, inner |-> r.inner, from |-> h.id, at |-> clock,
                    seq |-> Forks + 1]}
    /\ forkCalls' = forkCalls (+) SetToBag({<<h.inner, ident>>})
    /\ UNCHANGED <<clock, pc, vec, order, intervals, buf, lazy>>

\* handle.join()
Join(h) ==
    /\ pc = "running"
    /\ CanUse(h.id)
    /\ timers' = [timers EXCEPT ![h.inner] = ScopeJoinHandle_join(@, clock)]
    /\ handles' = handles \ {h}
    /\ intervals' = [intervals EXCEPT ![h.inner] = @ + (clock - h.at)]
    /\ UNCHANGED <<clock, pc, vec, order, forkCalls, buf, lazy>>

\* the handle goes out of scope without join(): Drop::drop runs
DropHandle(h) ==
    /\ pc = "running"
    /\ CanUse(h.id)
    /\ timers' = [timers EXCEPT ![h.inner] = Drop_drop(@, clock)]
    /\ handles' = handles \ {h}
    /\ intervals' = [intervals EXCEPT ![h.inner] = @ + (clock - h.at)]
    /\ UNCHANGED <<clock, pc, vec, order, forkCalls, buf, lazy>>

\* timer.join_and_finish(): consumes the root
JoinAndFinish ==
    /\ pc = "running"
    /\ CanUse(RootRecv)
    /\ LET r == join_and_finish(timers, clock)
       IN  /\ timers' = r.timers
           /\ vec' = r.vec
    /\ pc' = "finished"
    /\ UNCHANGED <<handles, clock, order, forkCalls, intervals, buf, lazy>>

\* timer.join_and_finish_pretty(): consumes the root, sorts the timings
JoinAndFinishPretty ==
    /\ pc = "running"
    /\ Len(timers) <= MaxRows
    /\ CanUse(RootRecv)
    /\ LET r == join_and_finish(timers, clock)
       IN  /\ timers' = r.timers
           /\ vec' = r.vec
           /\ \E s \in sort_unstable_by(r.vec, 1..Len(r.vec)) :
                  /\ order' = s
                  /\ buf' = render([i \in 1..Len(s) |-> r.vec[s[i]]])
    /\ pc' = "finished"
    /\ UNCHANGED <<handles, clock, forkCalls, intervals, lazy>>

Next ==
    \/ Tick
    \/ \E ident \in Idents : ForkRoot(ident)
    \/ \E h \in handles, ident \in Idents : ForkHandle(h, ident)
    \/ \E h \in handles : Join(h)
    \/ \E h \in handles : DropHandle(h)
    \/ JoinAndFinish
    \/ JoinAndFinishPretty

Spec == Init /\ [][Next]_vars

----------------------------------------------------------------------------
\* Derived views of the state.

\* the `timings` Vec after the sort: the data rows of the table, top to bottom
Rows == [i \in 1..Len(order) |-> vec[order[i]]]

Nodes == 1..Len(timers)
NonRoot == Nodes \ {Root}
ChildSet(n) == {timers[n].children[i] : i \in 1..Len(timers[n].children)}
Parent(n) == CHOOSE p \in Nodes : n \in ChildSet(p)

RECURSIVE SumAccumulated(_)
SumAccumulated(S) ==
    IF S = {} THEN 0
    ELSE LET n == CHOOSE m \in S : TRUE
         IN  timers[n].accumulated + SumAccumulated(S \ {n})

Max(a, b) == IF a >= b THEN a ELSE b

\* the nodes of the subtree of n, children (in Vec order) before their parent
RECURSIVE PostOrder(_), PostOrderFrom(_, _)
PostOrderFrom(v, k) ==
    IF k > Len(v) THEN <<>> ELSE PostOrder(v[k]) \o PostOrderFrom(v, k + 1)
PostOrder(n) == PostOrderFrom(timers[n].children, 1) \o <<n>>

----------------------------------------------------------------------------
\* C1: in every reachable state each node has at most one live
\* ScopeJoinHandle; a node cannot be forked again while the handle of its
\* previous fork is alive.
C1_AtMostOneHandle ==
    \A n \in Nodes : Cardinality({h \in handles : h.inner = n}) <= 1

\* a node that was joined once and forked again holds exactly one handle
C1_Witness ==
    \E h \in handles :
        /\ timers[h.inner].times_forked >= 2
        /\ timers[h.inner].joins >= 1

\* C2: the duration join_and_finish reports for a node is
\* max(0, accumulated - sum of its direct children's accumulated).
C2_SelfTime ==
    pc = "finished" =>
        LET po == PostOrder(Root)
        IN  /\ Len(vec) = Len(po)
            /\ \A i \in 1..Len(po) :
                   vec[i][2] = Max(0, timers[po[i]].accumulated
                                        - SumAccumulated(ChildSet(po[i])))

\* a finished tree with a node that has both self time and time in children
C2_Witness ==
    /\ pc = "finished"
    /\ \E i \in 1..Len(vec) :
           LET n == PostOrder(Root)[i]
           IN  /\ SumAccumulated(ChildSet(n)) > 0
               /\ vec[i][2] > 0
               /\ vec[i][2] < timers[n].accumulated

\* C3: no two children of the same parent have equal identifiers.
C3_UniqueChildIdents ==
    \A p \in Nodes :
        \A i, j \in 1..Len(timers[p].children) :
            i # j => timers[timers[p].children[i]].ident
                         # timers[timers[p].children[j]].ident

\* a parent with two children, one of which was re-entered (merged)
C3_Witness ==
    \E p \in Nodes :
        /\ Len(timers[p].children) = 2
        /\ \E c \in ChildSet(p) : timers[c].times_forked >= 2

\* C4: a non-root node's activation count equals the number of fork calls on
\* its parent that named its identifier; forks made from the node's own handle
\* do not change it.
C4_ActivationCount ==
    \A n \in NonRoot :
        timers[n].times_forked = CopiesIn(<<Parent(n), timers[n].ident>>, forkCalls)

\* a node entered twice whose own handle was used to fork a child
C4_Witness ==
    \E n \in NonRoot :
        /\ timers[n].times_forked = 2
        /\ timers[n].children # <<>>

\* C5: every fork is matched by exactly one execution of the node's join
\* logic: consuming a handle (join() or drop) runs it once and adds the elapsed
\* interval once, and at finalization every non-root node has been joined as
\* often as it was forked.
C5_JoinExactlyOnce ==
    /\ [](pc = "finished" =>
             \A n \in NonRoot : timers[n].joins = timers[n].times_forked)
    /\ [][\A h \in handles \ handles' :
             /\ timers'[h.inner].joins = timers[h.inner].joins + 1
             /\ timers'[h.inner].accumulated
                    = timers[h.inner].accumulated + (clock - timers[h.inner].start)]_vars

\* a finished run in which a node went through two fork/join cycles
C5_Witness ==
    /\ pc = "finished"
    /\ \E n \in NonRoot : timers[n].joins = 2 /\ timers[n].accumulated > 0

\* C6: a non-root node's accumulated duration is the sum, over its completed
\* fork/join cycles, of (join instant - fork instant).
C6_AccumulatedIsSum ==
    \A n \in NonRoot : timers[n].accumulated = intervals[n]

\* a node re-entered after a first cycle that took time: two cycles completed
C6_Witness ==
    \E n \in NonRoot :
        /\ ~Active(n)
        /\ timers[n].joins = 2
        /\ timers[n].accumulated = 1
        /\ timers[n].start = 2
        /\ clock = 2

\* C7: whenever B is a child of A and both are inactive, A's accumulated
\* duration is at least B's (the root counts as inactive once it is finalized).
C7_ParentAtLeastChild ==
    \A a \in Nodes : \A b \in ChildSet(a) :
        (/\ ~Active(b)
         /\ IF a = Root THEN pc = "finished" ELSE ~Active(a))
            => timers[a].accumulated >= timers[b].accumulated

\* root -> fork A -> fork B -> join B -> join A, with time spent in B and in A
C7_Witness ==
    \E a \in NonRoot : \E b \in ChildSet(a) :
        /\ ~Active(a) /\ ~Active(b)
        /\ timers[b].accumulated = 1
        /\ timers[a].accumulated = 2

\* C8: fork never fails.  Wherever the receiver is usable a fork is possible,
\* and a fork step returns a handle either to the existing child with that
\* identifier (children unchanged) or to a new child appended at the end of the
\* list; it removes, reorders and re-identifies no existing child.
C8_ForkNeverFails ==
    /\ [](pc = "running" /\ Forks < MaxForks =>
             /\ \A ident \in Idents : CanUse(RootRecv) => ENABLED ForkRoot(ident)
             /\ \A h \in handles : \A ident \in Idents :
                    CanUse(h.id) => ENABLED ForkHandle(h, ident))
    /\ [][\A c \in BagToSet(forkCalls') :
             CopiesIn(c, forkCalls') > CopiesIn(c, forkCalls) =>
                LET p == c[1]
                    ident == c[2]
                    old == timers[p].children
                    new == timers'[p].children
                IN  /\ \E h \in handles' \ handles :
                           /\ timers'[h.inner].ident = ident
                           /\ \/ /\ \E i \in 1..Len(old) : old[i] = h.inner
                                 /\ new = old
                                 /\ Len(timers') = Len(timers)
                              \/ /\ \A i \in 1..Len(old) : timers[old[i]].ident # ident
                                 /\ h.inner = Len(timers) + 1
                                 /\ Len(timers') = Len(timers) + 1
                                 /\ new = Append(old, h.inner)
                    /\ \A m \in Nodes :
                           /\ timers'[m].ident = timers[m].ident
                           /\ m # p => timers'[m].children = timers[m].children]_vars

\* both outcomes have happened under one parent: a child older than its
\* sibling was found again by a later fork and is live
C8_Witness ==
    \E h \in handles :
        /\ timers[h.inner].times_forked >= 2
        /\ \E p \in Nodes :
               /\ Len(timers[p].children) = 2
               /\ timers[p].children[1] = h.inner

\* C9: the data rows of join_and_finish_pretty are ordered by self time,
\* non-increasing, and are the report's entries.
C9_RowsNonIncreasing ==
    (pc = "finished" /\ order # <<>>) =>
        /\ Len(Rows) = Len(vec)
        /\ \A i \in 1..Len(vec) : \E k \in 1..Len(Rows) : order[k] = i
        /\ \A i \in 1..(Len(Rows) - 1) : Rows[i][2] >= Rows[i + 1][2]

\* a report the sort had to rearrange: the child's entry came first in the
\* aggregation, the root's larger self time comes first in the rows
C9_Witness ==
    /\ pc = "finished"
    /\ Len(order) = 2
    /\ vec[1][2] < vec[2][2]
    /\ Rows[1][2] > Rows[2][2]

\* C10: entries with equal self time keep their aggregation order in the rows.
C10_StableOrder ==
    (pc = "finished" /\ order # <<>>) =>
        \A i, j \in 1..Len(order) :
            (i < j /\ vec[order[i]][2] = vec[order[j]][2]) => order[i] < order[j]

\* the nodes strictly below n
RECURSIVE Descendants(_)
Descendants(n) ==
    ChildSet(n) \cup UNION {Descendants(c) : c \in ChildSet(n)}

\* C11: the list returned by join_and_finish is in tree post-order: one entry
\* per node, every descendant's entry before the node's own, sibling subtrees
\* in the order the siblings were first forked, the root's entry last.
C11_PostOrder ==
    pc = "finished" =>
        LET po == PostOrder(Root)
            Pos(n) == CHOOSE i \in 1..Len(po) : po[i] = n
        IN  /\ Len(vec) = Len(timers)
            /\ Len(po) = Len(timers)
            /\ \A n \in Nodes : Cardinality({i \in 1..Len(po) : po[i] = n}) = 1
            /\ \A i \in 1..Len(vec) :
                   /\ vec[i][1] = timers[po[i]].ident
                   /\ vec[i][3] = timers[po[i]].times_forked
            /\ \A n \in Nodes : \A d \in Descendants(n) : Pos(d) < Pos(n)
            /\ \A p \in Nodes : \A a, b \in ChildSet(p) :
                   a < b => \A x \in Descendants(a) \cup {a} :
                                \A y \in Descendants(b) \cup {b} : Pos(x) < Pos(y)
            /\ po[Len(po)] = Root
            /\ vec[Len(vec)][1] = RootIdent

\* a finished tree of two sibling subtrees, the first of them with a child
C11_Witness ==
    /\ pc = "finished"
    /\ Len(timers[Root].children) = 2
    /\ timers[timers[Root].children[1]].children # <<>>

\* the number of fork calls made directly on the root
RootForkCalls ==
    BagCardinality([c \in {d \in BagToSet(forkCalls) : d[1] = Root} |-> forkCalls[c]])

\* C12: the root is active from construction: its accumulated stays zero until
\* finalization, forks on the root never reset its activation timestamp (the
\* instant of construction, 0), and at finalization its accumulated becomes
\* (instant of finalization - instant of construction) and its reported self
\* time that interval minus the sum of its direct children's accumulated.
C12_RootActiveFromConstruction ==
    /\ timers[Root].start = 0
    /\ pc = "running" => timers[Root].accumulated = 0
    /\ pc = "finished" =>
           /\ timers[Root].accumulated = clock - 0
           /\ vec[Len(vec)][2] = clock - SumAccumulated(ChildSet(Root))

\* a root forked after time had passed, finalized later still
C12_Witness ==
    /\ pc = "finished"
    /\ clock = 2
    /\ \E c \in ChildSet(Root) : timers[c].start = 1 /\ timers[c].accumulated = 1
    /\ vec[Len(vec)][2] = 1

\* C13: a fresh root has activation count zero, zero accumulated and no
\* children; the root's count always equals the number of fork calls made
\* directly on the root, and that is the count reported at finalization.
C13_RootActivationCount ==
    /\ forkCalls = EmptyBag =>
           /\ timers[Root].times_forked = 0
           /\ timers[Root].children = <<>>
           /\ pc = "running" => timers[Root].accumulated = 0
    /\ timers[Root].times_forked = RootForkCalls
    /\ pc = "finished" => vec[Len(vec)][3] = RootForkCalls

\* scenario 1 with a nested fork: one fork on the root, one from the handle
C13_Witness ==
    /\ pc = "finished"
    /\ Forks = 2
    /\ vec[Len(vec)][3] = 1

\* C17: the live handles form a single chain descending from the root: at most
\* one child of any node is active, a node is active only if its parent is the
\* root or is active, a handle is neither forked nor joined while a handle
\* forked from it is alive, and the handle a join consumes is always the one
\* forked last among the live ones (LIFO).
C17_HandleChain ==
    /\ [](/\ \A n \in Nodes : Cardinality({c \in ChildSet(n) : Active(c)}) <= 1
          /\ \A n \in NonRoot :
                 Active(n) => (Parent(n) = Root \/ Active(Parent(n)))
          /\ \A h \in handles :
                 IF Parent(h.inner) = Root
                 THEN h.from = RootRecv
                 ELSE \E g \in handles : g.id = h.from /\ g.inner = Parent(h.inner))
    /\ [][/\ \A h \in handles' \ handles :
                 ~ \E g \in handles : g.from = h.from
          /\ \A h \in handles \ handles' :
                 /\ ~ \E g \in handles : g.from = h.id
                 /\ \A g \in handles : g.seq <= h.seq]_vars

\* a chain of two live handles whose deeper node was already joined once, last
\* in, first out, and then forked again
C17_Witness ==
    \E g, h \in handles :
        /\ g.from = RootRecv
        /\ h.from = g.id
        /\ timers[h.inner].joins >= 1

\* C18: a node's accumulated duration changes only in that node's own join
\* step (for the root, its finalization) and never decreases; forks, whether
\* they create or merge, and joins of other nodes leave it unchanged.
C18_AccumulatedFrame ==
    [][\A n \in Nodes :
          /\ timers'[n].accumulated >= timers[n].accumulated
          /\ timers'[n].accumulated # timers[n].accumulated =>
                 \/ \E h \in handles \ handles' : h.inner = n
                 \/ n = Root /\ pc = "running" /\ pc' = "finished"
          /\ (handles' \ handles # {}) =>
                 timers'[n].accumulated = timers[n].accumulated]_vars

\* a node that accumulated time is active again after a merging fork
C18_Witness ==
    \E h \in handles :
        /\ timers[h.inner].times_forked >= 2
        /\ timers[h.inner].accumulated >= 1

\* the distinct <<parent, identifier>> pairs ever forked
ForkedPairs == BagToSet(forkCalls)

\* C19: identifiers are merged only among siblings: every <<parent, identifier>>
\* pair ever forked has exactly one node of its own, with its own count and
\* time, also when the identifier equals the root's, an ancestor's or that of
\* a node under another parent; join_and_finish returns one entry per node, so
\* the report length is the number of such pairs plus one for the root.
C19_MergeOnlyAmongSiblings ==
    /\ Len(timers) = Cardinality(ForkedPairs) + 1
    /\ \A c \in ForkedPairs :
           /\ Cardinality({n \in NonRoot : /\ Parent(n) = c[1]
                                           /\ timers[n].ident = c[2]}) = 1
           /\ \A n \in NonRoot :
                  (Parent(n) = c[1] /\ timers[n].ident = c[2]) =>
                      /\ timers[n].times_forked = CopiesIn(c, forkCalls)
                      /\ timers[n].accumulated = intervals[n]
    /\ pc = "finished" => Len(vec) = Cardinality(ForkedPairs) + 1

\* the root's identifier forked under the root and again under that child,
\* the two nodes with different counts
C19_Witness ==
    /\ pc = "finished"
    /\ \E n, m \in NonRoot :
           /\ timers[n].ident = RootIdent
           /\ timers[m].ident = RootIdent
           /\ Parent(n) = Root
           /\ Parent(m) = n
           /\ timers[n].times_forked # timers[m].times_forked

RECURSIVE SumSelf(_, _)
SumSelf(v, k) == IF k > Len(v) THEN 0 ELSE v[k][2] + SumSelf(v, k + 1)

\* C20: every inactive node (the root once finalized) has accumulated >= the sum
\* of its direct children's accumulated, so the aggregation never saturates:
\* every reported self time is the exact difference, and the self times of the
\* report add up to the root's accumulated, the interval from construction to
\* finalization.
C20_NoSaturation ==
    /\ \A n \in NonRoot :
           ~Active(n) => timers[n].accumulated >= SumAccumulated(ChildSet(n))
    /\ pc = "finished" =>
           /\ timers[Root].accumulated >= SumAccumulated(ChildSet(Root))
           /\ \A i \in 1..Len(vec) :
                  vec[i][2] = timers[PostOrder(Root)[i]].accumulated
                                  - SumAccumulated(ChildSet(PostOrder(Root)[i]))
           /\ SumSelf(vec, 1) = timers[Root].accumulated
           /\ SumSelf(vec, 1) = clock - 0

\* a finished run whose time is split between a node and its child
C20_Witness ==
    /\ pc = "finished"
    /\ clock = 2
    /\ \E i, j \in 1..Len(vec) :
           /\ i < j /\ j < Len(vec)
           /\ vec[i][2] = 1 /\ vec[j][2] = 1
           /\ PostOrder(Root)[i] \in ChildSet(PostOrder(Root)[j])

\* the lines of a text: the runs of chars between line feeds
RECURSIVE Lines(_)
Lines(t) ==
    LET nl == {i \in 1..Len(t) : t[i] = NL}
    IN  IF nl = {} THEN <<t>>
        ELSE LET k == CHOOSE i \in nl : \A j \in nl : i <= j
             IN  <<SubSeq(t, 1, k - 1)>> \o Lines(SubSeq(t, k + 1, Len(t)))

\* the length of the col-th run of dashes of a horizontal rule
DashRun(line, col) ==
    LET plus == {i \in 1..Len(line) : line[i] = "+"}
        Kth(k) == CHOOSE i \in plus : Cardinality({j \in plus : j < i}) = k - 1
    IN  IF Cardinality(plus) # 4 THEN -1
        ELSE Cardinality({i \in (Kth(col) + 1)..(Kth(col + 1) - 1) : line[i] = "-"})

Header(col) == CASE col = 1 -> IDENT [] col = 2 -> DURAT [] col = 3 -> TIMESF

\* the largest number of chars of a column's rendered text over all data rows
RECURSIVE LongestText(_, _, _)
LongestText(strings, col, k) ==
    IF k > Len(strings) THEN 0
    ELSE Max(Len(strings[k][col]), LongestText(strings, col, k + 1))

\* C14: in the rendered table each column's width is max(length of its header
\* label, largest length of its rendered text over the rows), the column's
\* dash run in each of the three horizontal rules is width + 2, and so every
\* column is at least as wide as its header.  Lengths are counted in chars.
C14_ColumnWidths ==
    (pc = "finished" /\ buf # <<>>) =>
        LET ls == Lines(buf)
            strings == strings_of(Rows)
        IN  \A col \in 1..3 :
                LET width == Max(Len(Header(col)), LongestText(strings, col, 1))
                IN  /\ width >= Len(Header(col))
                    /\ \A r \in {1, 3, Len(ls)} : DashRun(ls[r], col) = width + 2

\* What the code computes: the same statement with str::len, the length in
\* UTF-8 bytes, in place of the number of chars.
WidthsInBytes ==
    (pc = "finished" /\ buf # <<>>) =>
        LET ls == Lines(buf)
            strings == strings_of(Rows)
        IN  /\ Len(ls) = Len(Rows) + 4
            /\ \A col \in 1..3 :
                   LET width == Max(str_len(Header(col)), fold_longest(strings, col, 1))
                   IN  \A r \in {1, 3, Len(ls)} : DashRun(ls[r], col) = width + 2

----------------------------------------------------------------------------
\* The single-shot timers of lib.rs: one closure, wrapped, inspected, unwrapped
\* or executed.  `calls` counts the invocations made by the library, `own`
\* those the caller makes through a reference or after into_inner.
treeVars == <<timers, handles, pc, vec, order, forkCalls, intervals, buf>>

InitLazy ==
    /\ timers = <<ScopedTimer_new(RootIdent, 0)>>
    /\ handles = {}
    /\ clock = 0
    /\ pc = "running"
    /\ vec = <<>>
    /\ order = <<>>
    /\ forkCalls = EmptyBag
    /\ intervals = [n \in 1..MaxNodes |-> 0]
    /\ buf = <<>>
    /\ \E f \in Closures :
           lazy = [pc |-> "closure", f |-> f, borrow |-> "no", calls |-> 0,
                   own |-> 0, out |-> <<>>]

LazyTick ==
    /\ lazy.pc # "done"
    /\ clock < MaxTime
    /\ clock' = clock + 1
    /\ UNCHANGED <<treeVars, lazy>>

\* LazyTimer::new(f)
New ==
    /\ lazy.pc = "closure"
    /\ LET r == LazyTimer_new(lazy.f)
       IN  lazy' = [lazy EXCEPT !.pc = "timer", !.f = r.timer.f, !.calls = @ + r.calls]
    /\ UNCHANGED <<treeVars, clock>>

\* f.into_lazy_timer()
IntoLazyTimer ==
    /\ lazy.pc = "closure"
    /\ LET r == into_lazy_timer(lazy.f)
       IN  lazy' = [lazy EXCEPT !.pc = "timer", !.f = r.timer.f, !.calls = @ + r.calls]
    /\ UNCHANGED <<treeVars, clock>>

\* timer.as_inner()
AsInner ==
    /\ lazy.pc = "timer"
    /\ lazy.borrow = "no"
    /\ LET r == LazyTimer_as_inner([f |-> lazy.f])
       IN  lazy' = [lazy EXCEPT !.borrow = "shared", !.calls = @ + r.calls]
    /\ UNCHANGED <<treeVars, clock>>

\* timer.as_inner_mut()
AsInnerMut ==
    /\ lazy.pc = "timer"
    /\ lazy.borrow = "no"
    /\ LET r == LazyTimer_as_inner([f |-> lazy.f])
       IN  lazy' = [lazy EXCEPT !.borrow = "mut", !.calls = @ + r.calls]
    /\ UNCHANGED <<treeVars, clock>>

\* the reference goes out of use
Release ==
    /\ lazy.pc = "timer"
    /\ lazy.borrow # "no"
    /\ lazy' = [lazy EXCEPT !.borrow = "no"]
    /\ UNCHANGED <<treeVars, clock>>

\* timer.into_inner()
IntoInner ==
    /\ lazy.pc = "timer"
    /\ lazy.borrow = "no"
    /\ LET r == LazyTimer_into_inner([f |-> lazy.f])
       IN  lazy' = [lazy EXCEPT !.pc = "inner", !.f = r.f, !.calls = @ + r.calls]
    /\ UNCHANGED <<treeVars, clock>>

\* the caller calls the closure itself, through the reference (tests::as_inner)
\* or once it has it back (tests::into_inner)
CallerCall ==
    /\ \/ lazy.pc = "timer" /\ lazy.borrow # "no"
       \/ lazy.pc = "inner"
    /\ lazy.own = 0
    /\ clock + lazy.f.cost <= MaxTime
    /\ clock' = clock + lazy.f.cost
    /\ lazy' = [lazy EXCEPT !.own = @ + 1]
    /\ UNCHANGED treeVars

\* timer.into_exec()
IntoExec ==
    /\ lazy.pc = "timer"
    /\ lazy.borrow = "no"
    /\ clock + lazy.f.cost <= MaxTime
    /\ LET r == LazyTimer_into_exec([f |-> lazy.f], clock)
       IN  /\ lazy' = [lazy EXCEPT !.pc = "done", !.calls = @ + r.calls,
                                   !.out = <<r.res, r.dur>>]
           /\ clock' = r.now
    /\ UNCHANGED treeVars

\* time_fn(f)
TimeFn ==
    /\ lazy.pc = "closure"
    /\ clock + lazy.f.cost <= MaxTime
    /\ LET r == time_fn(lazy.f, clock)
       IN  /\ lazy' = [lazy EXCEPT !.pc = "done", !.calls = @ + r.calls,
                                   !.out = <<r.res, r.dur>>]
           /\ clock' = r.now
    /\ UNCHANGED treeVars

NextLazy ==
    \/ LazyTick
    \/ New
    \/ IntoLazyTimer
    \/ AsInner
    \/ AsInnerMut
    \/ Release
    \/ IntoInner
    \/ CallerCall
    \/ IntoExec
    \/ TimeFn

SpecLazy == InitLazy /\ [][NextLazy]_vars

\* C16: into_exec, and time_fn which wraps it, invoke the closure exactly once
\* and return its result unchanged together with the duration of the call;
\* new, into_lazy_timer, as_inner, as_inner_mut and into_inner never invoke it.
C16_ExecCallsOnce ==
    /\ lazy.pc \in {"closure", "timer", "inner"} => lazy.calls = 0
    /\ lazy.pc = "done" =>
           /\ lazy.calls = 1
           /\ lazy.out[1] = lazy.f.res
           /\ lazy.out[2] = lazy.f.cost

\* a closure that was looked at through as_inner, called by the caller, and
\* then executed by into_exec, its body taking one tick
C16_Witness ==
    /\ lazy.pc = "done"
    /\ lazy.own = 1
    /\ lazy.out = <<MaxIdent, 1>>

----------------------------------------------------------------------------
\* the text of the col-th cell of a table row: what stands between its col-th
\* and (col+1)-th pipe, <<>> when the line has not exactly four pipes
Cell(line, col) ==
    LET pipes == {i \in 1..Len(line) : line[i] = "|"}
        Kth(k) == CHOOSE i \in pipes : Cardinality({j \in pipes : j < i}) = k - 1
    IN  IF Cardinality(pipes) # 4 THEN <<>>
        ELSE SubSeq(line, Kth(col) + 1, Kth(col + 1) - 1)

\* a text without the spaces at its end
RECURSIVE TrimRight(_)
TrimRight(t) ==
    IF t = <<>> \/ t[Len(t)] # " " THEN t ELSE TrimRight(SubSeq(t, 1, Len(t) - 1))

\* a cell carries `text`: one space, the text, then spaces only, at least one
Carries(cell, text) ==
    /\ Len(cell) >= 2
    /\ cell[1] = " "
    /\ cell[Len(cell)] = " "
    /\ TrimRight(SubSeq(cell, 2, Len(cell) - 1)) = text

IsRule(line) ==
    /\ line # <<>>
    /\ line[1] = "+"
    /\ line[Len(line)] = "+"
    /\ \A i \in 1..Len(line) : line[i] \in {"+", "-"}

\* C21: the rendered table of a report of N entries has exactly N + 4 lines:
\* rule, header, rule, one data row per entry in sorted order, rule; every line
\* has the same length (in chars); the k-th data row carries the identifier,
\* duration and activation count of the k-th sorted entry, each between one
\* leading and at least one trailing space, with pipes around the columns; the
\* text ends with the closing rule and no line feed follows it.
C21_TableShape ==
    (pc = "finished" /\ buf # <<>>) =>
        LET ls == Lines(buf)
            strings == strings_of(Rows)
            N == Len(Rows)
        IN  /\ Len(ls) = N + 4
            /\ \A r \in {1, 3, N + 4} : IsRule(ls[r]) /\ ls[r] = ls[1]
            /\ \A r \in 1..Len(ls) : Len(ls[r]) = Len(ls[1])
            /\ \A col \in 1..3 : Carries(Cell(ls[2], col), Header(col))
            /\ \A k \in 1..N : \A col \in 1..3 :
                   /\ ls[k + 3][1] = "|"
                   /\ ls[k + 3][Len(ls[k + 3])] = "|"
                   /\ Carries(Cell(ls[k + 3], col), strings[k][col])
            /\ buf[Len(buf)] # NL

\* a two-row table whose rows differ in identifier and duration, one duration
\* written with the micro sign
C21_Witness ==
    /\ pc = "finished"
    /\ buf # <<>>
    /\ Len(Rows) = 2
    /\ Rows[1][1] # Rows[2][1]
    /\ Rows[1][2] = 1 /\ Rows[2][2] = 0
    /\ \E i \in 1..Len(buf) : buf[i] = MICRO

====
